---- MODULE Spec2Model ----
(***************************************************************************)
(* The test runner of the aptitude-testing site (the TestRunner component) *)
(* as a state machine: the Firestore documents it reads, the testAttempts  *)
(* and activityLogs collections it writes, the component's React state,    *)
(* and the addDoc calls that are in flight between an await and its        *)
(* continuation.                                                           *)
(***************************************************************************)
EXTENDS Integers, Sequences, FiniteSets, Bags, TLC

VARIABLES
    testDoc,            \* the document tests/<testId>
    bankDoc,            \* the document questionBanks/<questionBankId>
    testAttempts,       \* the testAttempts collection, a bag of documents
    activityLogs,       \* the activityLogs collection, a bag of documents
    test,               \* useState: test
    questions,          \* useState: questions
    currentQuestion,    \* useState: currentQuestion
    timeRemaining,      \* useState: timeRemaining
    userAnswers,        \* useState: userAnswers
    showSubmitWarning,  \* useState: showSubmitWarning
    testSubmitted,      \* useState: testSubmitted
    loading,            \* useState: loading
    testStarted,        \* useState: testStarted
    mounted,            \* the component is rendered (not navigated away)
    inflight,           \* the addDoc calls awaiting their result, a bag
    startClicks,        \* number of startTest calls so far
    manualSubmits,      \* number of 'Yes, Submit' clicks so far
    expirySubmits       \* number of handleSubmitTest calls by the timer effect

vars == << testDoc, bankDoc, testAttempts, activityLogs, test, questions,
           currentQuestion, timeRemaining, userAnswers, showSubmitWarning,
           testSubmitted, loading, testStarted, mounted, inflight,
           startClicks, manualSubmits, expirySubmits >>

-----------------------------------------------------------------------------
(* Bounds of the model.                                                    *)

MaxStartClicks == 2     \* 'Start Test' clicks explored
MaxManualSubmits == 1   \* 'Yes, Submit' clicks explored

-----------------------------------------------------------------------------
(* JavaScript values: a value is a record [t, v] of its type and content. *)
(* A string is the sequence of its characters.                             *)

(* A number is held as its binary64 value (below); the elements of an      *)
(* index array are kept as plain integers.                                 *)

Null == [t |-> "null", v |-> 0]
Undefined == [t |-> "undefined", v |-> 0]
Num(x) == [t |-> "number", v |-> x]
Bool(b) == [t |-> "boolean", v |-> b]
Arr(a) == [t |-> "array", v |-> a]
Str(s) == [t |-> "string", v |-> s]

\* x === y (NaN equals nothing)
StrictEq(x, y) ==
    /\ x.t = y.t
    /\ x.v = y.v
    /\ x.t = "number" => ~x.v.nan

\* array.includes(a)
Includes(arr, a) == \E i \in 1..Len(arr) : arr[i] = a

\* array.filter(a => a !== x)
RECURSIVE FilterOut(_, _)
FilterOut(arr, x) ==
    IF arr = << >> THEN << >>
    ELSE IF Head(arr) = x THEN FilterOut(Tail(arr), x)
         ELSE << Head(arr) >> \o FilterOut(Tail(arr), x)

\* Math.round of the non-negative rational num / den: halves round up
MathRound(num, den) == (2 * num + den) \div (2 * den)

-----------------------------------------------------------------------------
(* IEEE-754 binary64 numbers, for decimal numerals of at most four         *)
(* fractional digits and magnitude below 128.  The numeral sgn * mag/10^4  *)
(* is held with the rounding of its nearest double: with 2^k the power of  *)
(* two at or below the magnitude, the double is                            *)
(*     sgn * (mag / 10^4  +  err * 2^(k-52) / 625)                         *)
(* where err / 625, in -1/2 .. 1/2, is the round-to-nearest error in units *)
(* of the last place (10^4 = 2^4 * 625), and odd is the parity of the      *)
(* rounded 53-bit significand.                                             *)

NaN == [nan |-> TRUE, sgn |-> 1, mag |-> 0, k |-> 0, err |-> 0, odd |-> FALSE]

RECURSIVE Pow2Mod(_, _)
Pow2Mod(j, m) == IF j = 0 THEN 1 % m ELSE (2 * Pow2Mod(j - 1, m)) % m

Exponent(mag) ==
    CHOOSE k \in -14..6 :
        IF k >= 0 THEN 2^k * 10000 <= mag /\ mag < 2^(k + 1) * 10000
        ELSE mag < 10000 /\ 10000 <= mag * 2^(-k) /\ mag * 2^(-k) < 20000

Float64(sgn, mag) ==
    IF mag = 0
    THEN [nan |-> FALSE, sgn |-> 1, mag |-> 0, k |-> 0, err |-> 0, odd |-> FALSE]
    ELSE LET k == Exponent(mag)
             \* the exact significand is mag * 2^(48-k) / 625
             r == ((mag % 625) * Pow2Mod(48 - k, 625)) % 625
             h == ((mag % 625) * Pow2Mod(47 - k, 625)) % 625
             floorOdd == 2 * h >= 625
             up == 2 * r > 625
         IN [nan |-> FALSE, sgn |-> sgn, mag |-> mag, k |-> k,
             err |-> IF up THEN 625 - r ELSE -r,
             odd |-> IF up THEN ~floorOdd ELSE floorOdd]

\* Math.abs(x - y) < t in binary64 arithmetic, for t a double that is not a
\* power of two: the difference is rounded to nearest (ties to even) and
\* compared with t.  Away from a decimal difference of exactly t the rounding
\* errors (below 2^-45) cannot decide; at it they do, scaled by 625 * 2^67.
AbsDiffLess(x, y, t) ==
    IF x.nan \/ y.nan \/ t.nan THEN FALSE
    ELSE LET ax == x.sgn * x.mag
             ay == y.sgn * y.mag
             delta == IF ax >= ay THEN ax - ay ELSE ay - ax
             sigma == IF ax >= ay THEN 1 ELSE -1
             tiny == sigma * (x.sgn * x.err * 2^(x.k + 15)
                              - y.sgn * y.err * 2^(y.k + 15))
             edge == t.err * 2^(t.k + 15) - 625 * 2^(t.k + 14)
         IN IF delta # t.mag THEN delta < t.mag
            ELSE IF t.odd THEN tiny <= edge ELSE tiny < edge

Digits == << "0", "1", "2", "3", "4", "5", "6", "7", "8", "9" >>
IsDigit(c) == \E d \in 1..10 : Digits[d] = c
DigitValue(c) == (CHOOSE d \in 1..10 : Digits[d] = c) - 1

RECURSIVE ScanDigits(_, _, _, _)
ScanDigits(s, i, acc, n) ==
    IF i <= Len(s) /\ IsDigit(s[i])
    THEN ScanDigits(s, i + 1, acc * 10 + DigitValue(s[i]), n + 1)
    ELSE [val |-> acc, pos |-> i, n |-> n]

\* parseFloat(s): optional sign, digits, optional fraction; the longest
\* numeric prefix is taken and a string without one gives NaN
parseFloat(s) ==
    LET neg == Len(s) >= 1 /\ s[1] = "-"
        ip == ScanDigits(s, IF neg THEN 2 ELSE 1, 0, 0)
        dot == ip.pos <= Len(s) /\ s[ip.pos] = "."
        fp == IF dot THEN ScanDigits(s, ip.pos + 1, 0, 0)
              ELSE [val |-> 0, pos |-> ip.pos, n |-> 0]
    IN IF ip.n + fp.n = 0 THEN NaN
       ELSE Float64(IF neg THEN -1 ELSE 1,
                    ip.val * 10000 + fp.val * 10^(4 - fp.n))

\* Number.prototype.toString for these numerals: the shortest decimal that
\* reads back as the same double is the numeral itself
RECURSIVE IntDigits(_)
IntDigits(n) ==
    IF n < 10 THEN << Digits[n + 1] >>
    ELSE IntDigits(n \div 10) \o << Digits[(n % 10) + 1] >>

RECURSIVE FracDigits(_, _)
FracDigits(f, width) ==
    IF f = 0 THEN << >>
    ELSE << Digits[(f \div 10^(width - 1)) + 1] >>
         \o FracDigits(f % 10^(width - 1), width - 1)

NumberToString(x) ==
    IF x.nan THEN << "N", "a", "N" >>
    ELSE (IF x.sgn < 0 THEN << "-" >> ELSE << >>)
         \o IntDigits(x.mag \div 10000)
         \o (IF x.mag % 10000 = 0 THEN << >>
             ELSE << "." >> \o FracDigits(x.mag % 10000, 4))

\* parseInt(s): optional sign and the leading digits
parseInt(s) ==
    LET neg == Len(s) >= 1 /\ s[1] = "-"
        ip == ScanDigits(s, IF neg THEN 2 ELSE 1, 0, 0)
    IN IF ip.n = 0 THEN NaN
       ELSE Float64(IF neg THEN -1 ELSE 1, ip.val * 10000)

\* the number n of an integer literal or index
Number(n) == Num(Float64(IF n < 0 THEN -1 ELSE 1, (IF n < 0 THEN -n ELSE n) * 10000))

\* the integer value of an integral number
IntValue(x) == x.sgn * (x.mag \div 10000)

\* x || d
OrElse(x, d) ==
    IF \/ x.t \in {"undefined", "null"}
       \/ x.t = "number" /\ (x.v.nan \/ x.v.mag = 0)
       \/ x.t = "boolean" /\ ~x.v
       \/ x.t = "string" /\ x.v = << >>
    THEN d ELSE x

-----------------------------------------------------------------------------
(* The documents of the questions collection, by id.  An id outside the    *)
(* domain no longer resolves.                                              *)

\* the ids of forty true/false questions
TrueFalseIds ==
    << "t01", "t02", "t03", "t04", "t05", "t06", "t07", "t08", "t09", "t10",
       "t11", "t12", "t13", "t14", "t15", "t16", "t17", "t18", "t19", "t20",
       "t21", "t22", "t23", "t24", "t25", "t26", "t27", "t28", "t29", "t30",
       "t31", "t32", "t33", "t34", "t35", "t36", "t37", "t38", "t39", "t40" >>

QuestionDocs ==
    [ s1 |-> [type |-> "mcq-single", options |-> 2, correctAnswer |-> Number(1)],
      s2 |-> [type |-> "mcq-single", options |-> 2, correctAnswer |-> Number(0)],
      m1 |-> [type |-> "mcq-multiple", options |-> 4, correctAnswer |-> Arr(<< 0, 2 >>)],
      m2 |-> [type |-> "mcq-multiple", options |-> 2, correctAnswer |-> Arr(<< 1, 0 >>)],
      b1 |-> [type |-> "true-false", options |-> 0, correctAnswer |-> Bool(TRUE)],
      n1 |-> [type |-> "numeric", options |-> 0,
              correctAnswer |-> Num(Float64(1, 420000))],
      n2 |-> [type |-> "numeric", options |-> 0,
              correctAnswer |-> Num(Float64(1, 0))] ]
    @@ [id \in { TrueFalseIds[i] : i \in 1..Len(TrueFalseIds) } |->
            [type |-> "true-false", options |-> 0, correctAnswer |-> Bool(TRUE)]]

\* { id: questionDoc.id, ...questionDoc.data() }
Question(id) ==
    [id |-> id, type |-> QuestionDocs[id].type,
     options |-> QuestionDocs[id].options,
     correctAnswer |-> QuestionDocs[id].correctAnswer]

\* what an <input type="number"> can hold: nothing or a numeral
NumericInputs ==
    { << >>,
      << "4", "2" >>,
      << "4", "2", ".", "0", "0", "0", "9" >>,
      << "4", "2", ".", "0", "0", "1" >>,
      << "4", "2", ".", "0", "1" >>,
      << "4", "1", ".", "9", "9", "9" >>,
      << "0", ".", "0", "0", "1" >>,
      << "-", "0", ".", "0", "0", "0", "9" >> }

NoTest == [exists |-> FALSE, duration |-> 0, passingScore |-> Undefined,
           shuffleQuestions |-> FALSE]

\* a completed attempt of this user and test left by an earlier session
EarlierAttempt ==
    [status |-> "completed", answers |-> << >>, score |-> 0, timeSpent |-> 0,
     totalQuestions |-> 1, answeredQuestions |-> 0, origin |-> "earlier"]

-----------------------------------------------------------------------------
(* Scoring.                                                                *)

\* userAnswers.find(ua => ua.questionId === id): the first match, if any
Find(uas, id) ==
    IF \E i \in 1..Len(uas) : uas[i].questionId = id
    THEN LET i == CHOOSE i \in 1..Len(uas) :
                    /\ uas[i].questionId = id
                    /\ \A j \in 1..(i - 1) : uas[j].questionId # id
         IN [found |-> TRUE, ua |-> uas[i]]
    ELSE [found |-> FALSE, ua |-> [questionId |-> id, answer |-> Null,
                                   timeSpent |-> 0, flagged |-> FALSE]]

\* the multi-choice comparison without its length test
IsCorrectByContainment(question, answer) ==
    CASE question.type = "mcq-multiple" ->
            \A i \in 1..Len(question.correctAnswer.v) :
                Includes(answer.v, question.correctAnswer.v[i])
      [] OTHER -> StrictEq(answer, question.correctAnswer)

\* the switch on question.type in calculateScore
IsCorrect(question, answer) ==
    CASE question.type = "mcq-single" ->
            StrictEq(answer, question.correctAnswer)
      [] question.type = "mcq-multiple" ->
            LET correctAnswers == question.correctAnswer.v
                userAnswerArray == answer.v
            IN /\ Len(correctAnswers) = Len(userAnswerArray)
               /\ \A i \in 1..Len(correctAnswers) :
                      Includes(userAnswerArray, correctAnswers[i])
      [] question.type = "true-false" ->
            StrictEq(answer, question.correctAnswer)
      [] question.type = "numeric" ->
            LET numericAnswer ==
                    parseFloat(IF answer.t = "string" THEN answer.v
                               ELSE NumberToString(answer.v))
                correctNumeric ==
                    parseFloat(IF question.correctAnswer.t = "string"
                               THEN question.correctAnswer.v
                               ELSE NumberToString(question.correctAnswer.v))
            IN AbsDiffLess(numericAnswer, correctNumeric, Float64(1, 10))
      [] OTHER -> FALSE

\* the forEach of calculateScore: the number of questions counted correct
RECURSIVE CountCorrect(_, _)
CountCorrect(qs, uas) ==
    IF qs = << >> THEN 0
    ELSE LET userAnswer == Find(uas, Head(qs).id)
             counted == /\ userAnswer.found
                        /\ userAnswer.ua.answer.t # "null"
                        /\ IsCorrect(Head(qs), userAnswer.ua.answer)
         IN (IF counted THEN 1 ELSE 0) + CountCorrect(Tail(qs), uas)

\* userAnswers.filter(ua => ua.answer !== null).length
AnsweredCount(uas) == Cardinality({i \in 1..Len(uas) : uas[i].answer.t # "null"})

\* the k with 2^k <= num / den < 2^(k + 1)
Log2Floor(num, den) ==
    CHOOSE k \in -8..7 :
        IF k >= 0 THEN 2^k * den <= num /\ num < 2^(k + 1) * den
        ELSE den <= num * 2^(-k) /\ num * 2^(-k) < 2 * den

\* correctAnswers / questions.length in binary64, for 0 < c <= n < 200: the
\* double nearest c / n is  c / n + err * 2^(k-52) / n  with 2^k the power of
\* two at or below c / n and err / n, in -1/2 .. 1/2, the rounding error in
\* units of the last place (no quotient of such c and n lies halfway)
Quotient(c, n) ==
    LET k == Log2Floor(c, n)
        r == (c * Pow2Mod(52 - k, n)) % n
    IN [k |-> k, err |-> IF 2 * r < n THEN -r ELSE n - r]

\* Math.round((correctAnswers / questions.length) * 100): the product is
\* rounded to a double again and Math.round takes the nearest integer, halves
\* up.  The double differs from 100 * c / n by less than 2^-45, which matters
\* only where 100 * c / n is a half exactly: the score is then the integer
\* below when the product falls short of the half by more than half a unit
\* of the last place of the half (2^kH the power of two at or below it).
Percentage(c, n) ==
    LET exact == MathRound(100 * c, n)
    IN IF c = 0 THEN 0
       ELSE IF 200 * c # n * (2 * exact - 1) THEN exact
       ELSE LET q == Quotient(c, n)
                kH == Log2Floor(2 * exact - 1, 2)
            IN IF q.err < 0 /\ 200 * (-q.err) > n * 2^(kH - q.k)
               THEN exact - 1 ELSE exact

\* questions is never empty where calculateScore runs: the screens that
\* offer a submission come after the 'unavailable' return
calculateScore(qs, uas) == Percentage(CountCorrect(qs, uas), Len(qs))

-----------------------------------------------------------------------------
(* The component.                                                          *)

\* which of the component's returns is rendered
\* the render guards without the test for an empty question list
ScreenOfLoadedTest ==
    IF ~mounted THEN "none"
    ELSE IF loading THEN "loading"
    ELSE IF ~test.exists THEN "unavailable"
    ELSE IF ~testStarted THEN "start"
    ELSE IF testSubmitted THEN "result"
    ELSE "test"

Screen ==
    IF ~mounted THEN "none"
    ELSE IF loading THEN "loading"
    ELSE IF ~test.exists \/ Len(questions) = 0 THEN "unavailable"
    ELSE IF ~testStarted THEN "start"
    ELSE IF testSubmitted THEN "result"
    ELSE "test"

currentQuestionData == questions[currentQuestion + 1]

currentAnswer == Find(userAnswers, currentQuestionData.id).ua

\* a collection with one more document, and with one document less
Added(bag, d) == bag (+) SetToBag({d})
Removed(bag, d) == bag (-) SetToBag({d})

\* a resolver that stops at the first id that no longer resolves
RECURSIVE ResolveUntilGap(_)
ResolveUntilGap(ids) ==
    IF ids = << >> \/ Head(ids) \notin DOMAIN QuestionDocs THEN << >>
    ELSE << Question(Head(ids)) >> \o ResolveUntilGap(Tail(ids))

\* the ids of the bank that still resolve, in the bank's order
RECURSIVE Resolve(_)
Resolve(ids) ==
    IF ids = << >> THEN << >>
    ELSE (IF Head(ids) \in DOMAIN QuestionDocs
          THEN << Question(Head(ids)) >> ELSE << >>) \o Resolve(Tail(ids))

\* a sort that may repeat one question in place of another
ShufflesWithRepeats(qs) ==
    { [i \in 1..Len(qs) |-> qs[p[i]]] : p \in [1..Len(qs) -> 1..Len(qs)] }

\* questionsData.sort(() => Math.random() - 0.5): some reordering
Shuffles(qs) ==
    { [i \in 1..Len(qs) |-> qs[p[i]]] :
        p \in { f \in [1..Len(qs) -> 1..Len(qs)] :
                  \A i, j \in 1..Len(qs) : f[i] = f[j] => i = j } }

SeedAnswers(qs) ==
    [i \in 1..Len(qs) |-> [questionId |-> qs[i].id, answer |-> Null,
                           timeSpent |-> 0, flagged |-> FALSE]]

InitWith(tests, banks, earlier) ==
    /\ testDoc \in tests
    /\ bankDoc \in banks
    /\ testAttempts \in earlier
    /\ activityLogs = EmptyBag
    /\ test = NoTest
    /\ questions = << >>
    /\ currentQuestion = 0
    /\ timeRemaining = 0
    /\ userAnswers = << >>
    /\ showSubmitWarning = FALSE
    /\ testSubmitted = FALSE
    /\ loading = TRUE
    /\ testStarted = FALSE
    /\ mounted = TRUE
    /\ inflight = EmptyBag
    /\ startClicks = 0
    /\ manualSubmits = 0
    /\ expirySubmits = 0

\* the query for this user's completed attempts of this test finds one (every
\* document of the model is of the one user and the one test)
AlreadyCompletedInProgress(attempts) ==
    \E d \in BagToSet(attempts) : d.status = "in_progress"

AlreadyCompleted(attempts) ==
    \E d \in BagToSet(attempts) : d.status = "completed"

\* fetchTestData, run by the mount effect; nothing else can run while the
\* spinner is shown, so its awaits are taken in one step
fetchTestData ==
    /\ mounted /\ loading
    /\ loading' = FALSE
    /\ IF ~testDoc.exists
       THEN /\ mounted' = FALSE
            /\ UNCHANGED << test, questions, timeRemaining, userAnswers >>
       ELSE /\ test' = testDoc
            /\ IF AlreadyCompleted(testAttempts)
               THEN /\ mounted' = FALSE
                    /\ UNCHANGED << questions, timeRemaining, userAnswers >>
               ELSE IF ~bankDoc.exists
               THEN /\ mounted' = FALSE
                    /\ UNCHANGED << questions, timeRemaining, userAnswers >>
               ELSE /\ \E questionsData \in
                             (IF testDoc.shuffleQuestions
                              THEN Shuffles(Resolve(bankDoc.questions))
                              ELSE { Resolve(bankDoc.questions) }) :
                          /\ questions' = questionsData
                          /\ userAnswers' = SeedAnswers(questionsData)
                    /\ timeRemaining' = testDoc.duration * 60
                    /\ mounted' = mounted
    /\ UNCHANGED << testDoc, bankDoc, testAttempts, activityLogs,
                    currentQuestion, showSubmitWarning, testSubmitted,
                    testStarted, inflight, startClicks, manualSubmits,
                    expirySubmits >>

\* one of fetchTestData's reads throws: the catch navigates away.  The read
\* of the test document comes before setTest, the other reads after it
fetchTestDataThrows ==
    /\ mounted /\ loading
    /\ loading' = FALSE
    /\ mounted' = FALSE
    /\ \E afterSetTest \in BOOLEAN :
          test' = IF afterSetTest /\ testDoc.exists THEN testDoc ELSE test
    /\ UNCHANGED << testDoc, bankDoc, testAttempts, activityLogs, questions,
                    currentQuestion, timeRemaining, userAnswers,
                    showSubmitWarning, testSubmitted, testStarted, inflight,
                    startClicks, manualSubmits, expirySubmits >>

-----------------------------------------------------------------------------
(* Starting, the countdown and submission.                                 *)

TimerRunsAboveOne(remaining, submitted, started) ==
    remaining > 1 /\ ~submitted /\ started

\* the timer effect's first branch: a one-second timeout is pending
TimerRuns(remaining, submitted, started) ==
    remaining > 0 /\ ~submitted /\ started

\* the timer effect's second branch: it calls handleSubmitTest
TimerSubmits(remaining, submitted, started) ==
    ~TimerRuns(remaining, submitted, started) /\ remaining = 0 /\ started

\* the record startTest adds
InProgressAttempt ==
    [status |-> "in_progress", answers |-> << >>,
     score |-> -1,      \* null
     timeSpent |-> 0, totalQuestions |-> 0, answeredQuestions |-> 0,
     origin |-> "session"]

\* a record that counts every question as answered
CompletedAttemptCountingAll(remaining) ==
    [status |-> "completed", answers |-> userAnswers,
     score |-> calculateScore(questions, userAnswers),
     timeSpent |-> MathRound(test.duration * 60 - remaining, 60),
     totalQuestions |-> Len(questions),
     answeredQuestions |-> Len(userAnswers),
     origin |-> "session"]

\* the record handleSubmitTest adds, from the state it is called in
CompletedAttempt(remaining) ==
    [status |-> "completed", answers |-> userAnswers,
     score |-> calculateScore(questions, userAnswers),
     timeSpent |-> MathRound(test.duration * 60 - remaining, 60),
     totalQuestions |-> Len(questions),
     answeredQuestions |-> AnsweredCount(userAnswers),
     origin |-> "session"]

\* handleSubmitTest up to its first await: the score is computed and the
\* completed record handed to addDoc
handleSubmitTest(pending, remaining) ==
    inflight' = Added(pending, [kind |-> "attempt",
                                doc |-> CompletedAttempt(remaining)])

\* the timer effect, run after a render in which one of its dependencies
\* [timeRemaining, testSubmitted, testStarted] changed
TimerEffect(pending, remaining, submitted, started) ==
    IF /\ mounted
       /\ << remaining, submitted, started >>
              # << timeRemaining, testSubmitted, testStarted >>
       /\ TimerSubmits(remaining, submitted, started)
    THEN /\ handleSubmitTest(pending, remaining)
         /\ expirySubmits' = expirySubmits + 1
    ELSE /\ inflight' = pending
         /\ UNCHANGED expirySubmits

\* 'Start Test': startTest up to its await
startTest ==
    /\ Screen = "start"
    /\ startClicks < MaxStartClicks
    /\ startClicks' = startClicks + 1
    /\ inflight' = Added(inflight, [kind |-> "start", doc |-> InProgressAttempt])
    /\ UNCHANGED << testDoc, bankDoc, testAttempts, activityLogs, test,
                    questions, currentQuestion, timeRemaining, userAnswers,
                    showSubmitWarning, testSubmitted, loading, testStarted,
                    mounted, manualSubmits, expirySubmits >>

\* startTest after its await: the record is stored, setTestStarted(true)
startTestResumes(call) ==
    /\ call.kind = "start"
    /\ testAttempts' = Added(testAttempts, call.doc)
    /\ testStarted' = (mounted \/ testStarted)
    /\ TimerEffect(Removed(inflight, call), timeRemaining, testSubmitted, testStarted')
    /\ UNCHANGED << testDoc, bankDoc, activityLogs, test, questions,
                    currentQuestion, timeRemaining, userAnswers,
                    showSubmitWarning, testSubmitted, loading, mounted,
                    startClicks, manualSubmits >>

\* a timeout that takes two seconds off the clock
tickTwoSeconds ==
    /\ mounted
    /\ TimerRuns(timeRemaining, testSubmitted, testStarted)
    /\ timeRemaining' = timeRemaining - 2
    /\ TimerEffect(inflight, timeRemaining', testSubmitted, testStarted)
    /\ UNCHANGED << testDoc, bankDoc, testAttempts, activityLogs, test,
                    questions, currentQuestion, userAnswers,
                    showSubmitWarning, testSubmitted, loading, testStarted,
                    mounted, startClicks, manualSubmits >>

\* the timeout set by the timer effect: setTimeRemaining(timeRemaining - 1)
tick ==
    /\ mounted
    /\ TimerRuns(timeRemaining, testSubmitted, testStarted)
    /\ timeRemaining' = timeRemaining - 1
    /\ TimerEffect(inflight, timeRemaining', testSubmitted, testStarted)
    /\ UNCHANGED << testDoc, bankDoc, testAttempts, activityLogs, test,
                    questions, currentQuestion, userAnswers,
                    showSubmitWarning, testSubmitted, loading, testStarted,
                    mounted, startClicks, manualSubmits >>

\* 'Yes, Submit' with a scoring that clears the answers it has read
yesSubmitClearingAnswers ==
    /\ Screen = "test"
    /\ showSubmitWarning
    /\ manualSubmits < MaxManualSubmits
    /\ manualSubmits' = manualSubmits + 1
    /\ handleSubmitTest(inflight, timeRemaining)
    /\ userAnswers' = SeedAnswers(questions)
    /\ UNCHANGED << testDoc, bankDoc, testAttempts, activityLogs, test,
                    questions, currentQuestion, timeRemaining,
                    showSubmitWarning, testSubmitted, loading, testStarted,
                    mounted, startClicks, expirySubmits >>

\* 'Yes, Submit' in the submit warning
yesSubmit ==
    /\ Screen = "test"
    /\ showSubmitWarning
    /\ manualSubmits < MaxManualSubmits
    /\ manualSubmits' = manualSubmits + 1
    /\ handleSubmitTest(inflight, timeRemaining)
    /\ UNCHANGED << testDoc, bankDoc, testAttempts, activityLogs, test,
                    questions, currentQuestion, timeRemaining, userAnswers,
                    showSubmitWarning, testSubmitted, loading, testStarted,
                    mounted, startClicks, expirySubmits >>

\* handleSubmitTest after its first await: the completed record is stored
\* and the activity log entry handed to addDoc
handleSubmitTestLogs(call) ==
    /\ call.kind = "attempt"
    /\ testAttempts' = Added(testAttempts, call.doc)
    /\ inflight' = Added(Removed(inflight, call),
                         [kind |-> "log", doc |-> call.doc])
    /\ UNCHANGED << testDoc, bankDoc, activityLogs, test, questions,
                    currentQuestion, timeRemaining, userAnswers,
                    showSubmitWarning, testSubmitted, loading, testStarted,
                    mounted, startClicks, manualSubmits, expirySubmits >>

\* handleSubmitTest after its second await: setTestSubmitted(true)
handleSubmitTestResumes(call) ==
    /\ call.kind = "log"
    /\ activityLogs' = Added(activityLogs, [actionType |-> "test_complete",
                                            score |-> call.doc.score])
    /\ testSubmitted' = (mounted \/ testSubmitted)
    /\ TimerEffect(Removed(inflight, call), timeRemaining, testSubmitted', testStarted)
    /\ UNCHANGED << testDoc, bankDoc, testAttempts, test, questions,
                    currentQuestion, timeRemaining, userAnswers,
                    showSubmitWarning, loading, testStarted, mounted,
                    startClicks, manualSubmits >>

\* a rejection that the caller takes for a success
addDocRejectsUnnoticed(call) ==
    /\ inflight' = Removed(inflight, call)
    /\ testStarted' = (testStarted \/ (mounted /\ call.kind = "start"))
    /\ UNCHANGED << testDoc, bankDoc, testAttempts, activityLogs, test,
                    questions, currentQuestion, timeRemaining, userAnswers,
                    showSubmitWarning, testSubmitted, loading,
                    mounted, startClicks, manualSubmits, expirySubmits >>

\* an addDoc rejects: nothing is stored and the caller's catch reports it
addDocRejects(call) ==
    /\ inflight' = Removed(inflight, call)
    /\ UNCHANGED << testDoc, bankDoc, testAttempts, activityLogs, test,
                    questions, currentQuestion, timeRemaining, userAnswers,
                    showSubmitWarning, testSubmitted, loading, testStarted,
                    mounted, startClicks, manualSubmits, expirySubmits >>

\* the completed record of another session of the same user and test
OtherSessionAttempt ==
    [status |-> "completed", answers |-> << >>, score |-> 0, timeSpent |-> 0,
     totalQuestions |-> 1, answeredQuestions |-> 0, origin |-> "other"]

\* handleSubmitTest of another session (another tab) stores its record
anotherSessionCompletes ==
    /\ OtherSessionAttempt \notin BagToSet(testAttempts)
    /\ testAttempts' = Added(testAttempts, OtherSessionAttempt)
    /\ UNCHANGED << testDoc, bankDoc, activityLogs, test, questions,
                    currentQuestion, timeRemaining, userAnswers,
                    showSubmitWarning, testSubmitted, loading, testStarted,
                    mounted, inflight, startClicks, manualSubmits,
                    expirySubmits >>

\* 'Back to Tests' / 'Dashboard' on the screens that offer them
navigateAway ==
    /\ Screen \in {"unavailable", "start", "result"}
    /\ mounted' = FALSE
    /\ UNCHANGED << testDoc, bankDoc, testAttempts, activityLogs, test,
                    questions, currentQuestion, timeRemaining, userAnswers,
                    showSubmitWarning, testSubmitted, loading, testStarted,
                    inflight, startClicks, manualSubmits, expirySubmits >>

-----------------------------------------------------------------------------
(* Answering, flagging and moving between questions.                       *)

\* an update that keeps only the entry it changes
updateAnswerDroppingOthers(questionId, answer) ==
    userAnswers' =
        SelectSeq([i \in 1..Len(userAnswers) |->
                      [userAnswers[i] EXCEPT !.answer = answer]],
                  LAMBDA ua : ua.questionId = questionId)

updateAnswer(questionId, answer) ==
    userAnswers' =
        [i \in 1..Len(userAnswers) |->
            IF userAnswers[i].questionId = questionId
            THEN [userAnswers[i] EXCEPT !.answer = answer]
            ELSE userAnswers[i]]

\* a toggle that also takes the answer of the entry away
toggleFlagClearingAnswer(questionId) ==
    userAnswers' =
        [i \in 1..Len(userAnswers) |->
            IF userAnswers[i].questionId = questionId
            THEN [userAnswers[i] EXCEPT !.flagged = ~userAnswers[i].flagged,
                                        !.answer = Null]
            ELSE userAnswers[i]]

toggleFlag(questionId) ==
    userAnswers' =
        [i \in 1..Len(userAnswers) |->
            IF userAnswers[i].questionId = questionId
            THEN [userAnswers[i] EXCEPT !.flagged = ~userAnswers[i].flagged]
            ELSE userAnswers[i]]

AnswerFrame ==
    UNCHANGED << testDoc, bankDoc, testAttempts, activityLogs, test,
                 questions, currentQuestion, timeRemaining,
                 showSubmitWarning, testSubmitted, loading, testStarted,
                 mounted, inflight, startClicks, manualSubmits, expirySubmits >>

\* the radio group of a single-choice question
selectOption ==
    /\ Screen = "test"
    /\ currentQuestionData.type = "mcq-single"
    /\ \E index \in 0..(currentQuestionData.options - 1) :
          updateAnswer(currentQuestionData.id,
                       Num(parseInt(NumberToString(Float64(1, index * 10000)))))
    /\ AnswerFrame

\* a checkbox handler that stores null for an empty selection
toggleOptionClearing ==
    /\ Screen = "test"
    /\ currentQuestionData.type = "mcq-multiple"
    /\ \E index \in 0..(currentQuestionData.options - 1) :
          LET currentAnswers == IF currentAnswer.answer.t = "array"
                                THEN currentAnswer.answer.v ELSE << >>
              checked == ~Includes(currentAnswers, index)
              selection == IF checked THEN Append(currentAnswers, index)
                           ELSE FilterOut(currentAnswers, index)
          IN updateAnswer(currentQuestionData.id,
                          IF selection = << >> THEN Null ELSE Arr(selection))
    /\ AnswerFrame

\* a checkbox of a multi-choice question
toggleOption ==
    /\ Screen = "test"
    /\ currentQuestionData.type = "mcq-multiple"
    /\ \E index \in 0..(currentQuestionData.options - 1) :
          LET currentAnswers == IF currentAnswer.answer.t = "array"
                                THEN currentAnswer.answer.v ELSE << >>
              checked == ~Includes(currentAnswers, index)
          IN updateAnswer(currentQuestionData.id,
                          Arr(IF checked THEN Append(currentAnswers, index)
                              ELSE FilterOut(currentAnswers, index)))
    /\ AnswerFrame

\* the number input of a numeric question
typeNumber ==
    /\ Screen = "test"
    /\ currentQuestionData.type = "numeric"
    /\ \E value \in NumericInputs :
          updateAnswer(currentQuestionData.id, Str(value))
    /\ AnswerFrame

\* the radio group of a true/false question
selectTrueFalse ==
    /\ Screen = "test"
    /\ currentQuestionData.type = "true-false"
    /\ \E value \in {"true", "false"} :
          updateAnswer(currentQuestionData.id, Bool(value = "true"))
    /\ AnswerFrame

\* the flag button of the current question
clickFlag ==
    /\ Screen = "test"
    /\ toggleFlag(currentQuestionData.id)
    /\ AnswerFrame

NavigationFrame ==
    UNCHANGED << testDoc, bankDoc, testAttempts, activityLogs, test,
                 questions, timeRemaining, userAnswers, testSubmitted,
                 loading, testStarted, mounted, inflight, startClicks,
                 manualSubmits, expirySubmits >>

Min(a, b) == IF a <= b THEN a ELSE b
Max(a, b) == IF a >= b THEN a ELSE b

\* a button of the question navigation sidebar
goToQuestion ==
    /\ Screen = "test"
    /\ \E index \in 0..(Len(questions) - 1) : currentQuestion' = index
    /\ UNCHANGED showSubmitWarning
    /\ NavigationFrame

\* 'Previous'
previousQuestion ==
    /\ Screen = "test"
    /\ currentQuestion # 0
    /\ currentQuestion' = Max(0, currentQuestion - 1)
    /\ UNCHANGED showSubmitWarning
    /\ NavigationFrame

\* 'Next', shown on every question but the last
nextQuestion ==
    /\ Screen = "test"
    /\ currentQuestion # Len(questions) - 1
    /\ currentQuestion' = Min(Len(questions) - 1, currentQuestion + 1)
    /\ UNCHANGED showSubmitWarning
    /\ NavigationFrame

\* 'Submit Test', shown on the last question
submitTestButton ==
    /\ Screen = "test"
    /\ currentQuestion = Len(questions) - 1
    /\ showSubmitWarning' = TRUE
    /\ UNCHANGED currentQuestion
    /\ NavigationFrame

\* 'Continue Test' in the submit warning
continueTest ==
    /\ Screen = "test"
    /\ showSubmitWarning
    /\ showSubmitWarning' = FALSE
    /\ UNCHANGED currentQuestion
    /\ NavigationFrame

-----------------------------------------------------------------------------
(* The session of a one-minute test with one single-choice question: the   *)
(* load, the start, the countdown, the submissions and the writes, with    *)
(* every write able to fail.                                               *)

SessionTests ==
    { [exists |-> TRUE, duration |-> 1, passingScore |-> Number(70),
       shuffleQuestions |-> FALSE] }

SessionBanks == { [exists |-> TRUE, questions |-> << "s1" >>] }

Init == InitWith(SessionTests, SessionBanks,
                 { EmptyBag, SetToBag({ EarlierAttempt }) })

Next ==
    \/ fetchTestData
    \/ fetchTestDataThrows
    \/ startTest
    \/ \E call \in BagToSet(inflight) : startTestResumes(call)
    \/ tick
    \/ yesSubmit
    \/ \E call \in BagToSet(inflight) : handleSubmitTestLogs(call)
    \/ \E call \in BagToSet(inflight) : handleSubmitTestResumes(call)
    \/ \E call \in BagToSet(inflight) : addDocRejects(call)
    \/ navigateAway
    \/ selectOption
    \/ submitTestButton
    \/ continueTest

Spec == Init /\ [][Next]_vars

-----------------------------------------------------------------------------
(* The same session when every write succeeds and 'Yes, Submit' is never   *)
(* clicked.  A pending timeout fires and a pending addDoc returns; what    *)
(* the operator does is left to the operator.                              *)

NextAuto ==
    \/ fetchTestData
    \/ fetchTestDataThrows
    \/ startTest
    \/ \E call \in BagToSet(inflight) : startTestResumes(call)
    \/ tick
    \/ \E call \in BagToSet(inflight) : handleSubmitTestLogs(call)
    \/ \E call \in BagToSet(inflight) : handleSubmitTestResumes(call)
    \/ navigateAway
    \/ selectOption
    \/ submitTestButton
    \/ continueTest

SpecAuto ==
    /\ Init
    /\ [][NextAuto]_vars
    /\ WF_vars(tick)
    /\ WF_vars(\E call \in BagToSet(inflight) : startTestResumes(call))
    /\ WF_vars(\E call \in BagToSet(inflight) : handleSubmitTestLogs(call))
    /\ WF_vars(\E call \in BagToSet(inflight) : handleSubmitTestResumes(call))

\* the session with every write able to fail, the clock and the
\* continuations of the awaited writes being scheduled fairly
SpecFair ==
    /\ Init
    /\ [][Next]_vars
    /\ WF_vars(tick)
    /\ WF_vars(\E call \in BagToSet(inflight) : startTestResumes(call))
    /\ WF_vars(\E call \in BagToSet(inflight) : handleSubmitTestLogs(call))
    /\ WF_vars(\E call \in BagToSet(inflight) : handleSubmitTestResumes(call))

-----------------------------------------------------------------------------
(* Scoring: the answers the operator can give to banks of every question   *)
(* type, within the first second of a started test.                        *)

ScoreTests ==
    { [exists |-> TRUE, duration |-> 1, passingScore |-> Number(70),
       shuffleQuestions |-> FALSE] }

ScoreBanks ==
    { [exists |-> TRUE, questions |-> << "s1", "s2", "m2", "b1", "n1" >>],
      [exists |-> TRUE, questions |-> << "m1" >>],
      [exists |-> TRUE, questions |-> << "n2", "gone" >>] }

InitScore == InitWith(ScoreTests, ScoreBanks, { EmptyBag })

NextScore ==
    \/ fetchTestData
    \/ startTest
    \/ \E call \in BagToSet(inflight) : startTestResumes(call)
    \/ selectOption
    \/ toggleOption
    \/ typeNumber
    \/ selectTrueFalse
    \/ goToQuestion
    \/ previousQuestion
    \/ nextQuestion

SpecScore == InitScore /\ [][NextScore]_vars

-----------------------------------------------------------------------------
(* The result screen: tests with and without a passing score, taken with   *)
(* two questions and submitted by the operator.                            *)

ResultTests ==
    { [exists |-> TRUE, duration |-> 1, passingScore |-> p,
       shuffleQuestions |-> FALSE] :
         p \in { Undefined, Number(0), Number(50), Number(70), Number(100) } }

ResultBanks == { [exists |-> TRUE, questions |-> << "s1", "b1" >>] }

InitResult == InitWith(ResultTests, ResultBanks, { EmptyBag })

NextResult ==
    \/ fetchTestData
    \/ startTest
    \/ \E call \in BagToSet(inflight) : startTestResumes(call)
    \/ selectOption
    \/ selectTrueFalse
    \/ goToQuestion
    \/ submitTestButton
    \/ continueTest
    \/ yesSubmit
    \/ \E call \in BagToSet(inflight) : handleSubmitTestLogs(call)
    \/ \E call \in BagToSet(inflight) : handleSubmitTestResumes(call)

SpecResult == InitResult /\ [][NextResult]_vars

-----------------------------------------------------------------------------
(* The tally: started sessions of tests of one to forty true/false         *)
(* questions, the operator on the last question with some of the           *)
(* questions answered correctly, who answers it or not and submits.        *)

TallyBanks ==
    { [exists |-> TRUE, questions |-> SubSeq(TrueFalseIds, 1, n)] :
        n \in 1..Len(TrueFalseIds) }

\* the answers after the first c questions were answered 'True'
TallyAnswers(qs, c) ==
    [i \in 1..Len(qs) |->
        [questionId |-> qs[i].id,
         answer |-> IF i <= c THEN Bool(TRUE) ELSE Null,
         timeSpent |-> 0, flagged |-> FALSE]]

InitTally ==
    /\ testDoc \in ScoreTests
    /\ bankDoc \in TallyBanks
    /\ testAttempts = SetToBag({ InProgressAttempt })
    /\ activityLogs = EmptyBag
    /\ test = testDoc
    /\ questions = Resolve(bankDoc.questions)
    /\ currentQuestion = Len(questions) - 1
    /\ timeRemaining = testDoc.duration * 60
    /\ userAnswers \in { TallyAnswers(questions, c) : c \in 0..Len(questions) }
    /\ showSubmitWarning = FALSE
    /\ testSubmitted = FALSE
    /\ loading = FALSE
    /\ testStarted = TRUE
    /\ mounted = TRUE
    /\ inflight = EmptyBag
    /\ startClicks = 1
    /\ manualSubmits = 0
    /\ expirySubmits = 0

NextTally ==
    \/ selectTrueFalse
    \/ submitTestButton
    \/ continueTest
    \/ yesSubmit
    \/ \E call \in BagToSet(inflight) : handleSubmitTestLogs(call)
    \/ \E call \in BagToSet(inflight) : handleSubmitTestResumes(call)

SpecTally == InitTally /\ [][NextTally]_vars

-----------------------------------------------------------------------------
(* The load and the start: tests with and without shuffling, banks that    *)
(* are missing, that resolve to nothing or that hold an id that no longer  *)
(* resolves, another session of the same user, and the answering and       *)
(* flagging of the questions before the clock's first second has passed.   *)

LoadTests ==
    { NoTest } \cup
    { [exists |-> TRUE, duration |-> 1, passingScore |-> Number(70),
       shuffleQuestions |-> b] : b \in BOOLEAN }

LoadBanks ==
    { [exists |-> FALSE, questions |-> << >>],
      [exists |-> TRUE, questions |-> << "gone" >>],
      [exists |-> TRUE, questions |-> << "s1", "gone", "s2", "b1" >>] }

InitLoad == InitWith(LoadTests, LoadBanks, { EmptyBag, SetToBag({ EarlierAttempt }) })

NextLoad ==
    \/ fetchTestData
    \/ fetchTestDataThrows
    \/ anotherSessionCompletes
    \/ startTest
    \/ \E call \in BagToSet(inflight) : startTestResumes(call)
    \/ \E call \in BagToSet(inflight) : addDocRejects(call)
    \/ navigateAway
    \/ selectOption
    \/ selectTrueFalse
    \/ clickFlag
    \/ goToQuestion

SpecLoad == InitLoad /\ [][NextLoad]_vars

-----------------------------------------------------------------------------
(* The answer store: updateAnswer and toggleFlag called in a started       *)
(* session with any question id, of the store or not, and any value.       *)

StoreIds == { "s1", "s2", "b1", "gone" }

StoreValues == { Number(0), Number(1), Bool(TRUE), Arr(<< >>) }

callUpdateAnswer ==
    /\ Screen = "test"
    /\ \E questionId \in StoreIds, answer \in StoreValues :
          updateAnswer(questionId, answer)
    /\ AnswerFrame

callToggleFlag ==
    /\ Screen = "test"
    /\ \E questionId \in StoreIds : toggleFlag(questionId)
    /\ AnswerFrame

InitStore == InitWith(ScoreTests, LoadBanks, { EmptyBag })

NextStore ==
    \/ fetchTestData
    \/ startTest
    \/ \E call \in BagToSet(inflight) : startTestResumes(call)
    \/ callUpdateAnswer
    \/ callToggleFlag

SpecStore == InitStore /\ [][NextStore]_vars

-----------------------------------------------------------------------------
(* Properties of the attempt store and of the session.                     *)

\* the documents of a collection with the given status and origin
Matching(bag, statuses, origins) ==
    [d \in {e \in BagToSet(bag) : e.status \in statuses /\ e.origin \in origins}
        |-> bag[d]]

CompletedCount == BagCardinality(Matching(testAttempts, {"completed"},
                                          {"earlier", "session"}))

SessionCompleted == BagCardinality(Matching(testAttempts, {"completed"}, {"session"}))

SessionInProgress == BagCardinality(Matching(testAttempts, {"in_progress"}, {"session"}))

\* handleSubmitTest calls waiting for the attempt write, and all of them
AttemptCalls ==
    BagCardinality([c \in {e \in BagToSet(inflight) : e.kind = "attempt"}
                       |-> inflight[c]])

SubmissionInFlight == \E c \in BagToSet(inflight) : c.kind \in {"attempt", "log"}

\* C1: the (user, test) pair never has more than one completed attempt in
\* testAttempts, whatever the session did and whichever writes failed.
AtMostOneCompleted == CompletedCount <= 1

\* C2: a submit trigger that arrives while a submission of the session is in
\* flight, or after the session is submitted, starts no further attempt write.
SubmitIsIdempotent ==
    [][(SubmissionInFlight \/ testSubmitted) => AttemptCalls' <= AttemptCalls]_vars

\* C3: without a manual submit and with writes that succeed, a started
\* session runs its clock down to zero and is then submitted, with a completed
\* attempt stored.
ExpirySubmits ==
    testStarted ~> (timeRemaining = 0 /\ testSubmitted /\ SessionCompleted >= 1)

ExpirySubmitted ==
    /\ testSubmitted
    /\ timeRemaining = 0
    /\ manualSubmits = 0
    /\ expirySubmits >= 1
    /\ SessionCompleted >= 1

\* C4: a session loaded while a completed attempt exists is blocked: it is
\* navigated away, stores and sends nothing, its clock stays unset, and neither
\* start, tick nor submit is enabled.
EarlierCompleted ==
    \E d \in BagToSet(testAttempts) : d.origin = "earlier" /\ d.status = "completed"

BlockedWhenCompleted ==
    EarlierCompleted =>
        /\ ~loading => Screen = "none"
        /\ \A d \in BagToSet(testAttempts) : d.origin # "session"
        /\ inflight = EmptyBag
        /\ timeRemaining = 0
        /\ ~testStarted /\ ~testSubmitted
        /\ ~ENABLED startTest
        /\ ~ENABLED tick
        /\ ~ENABLED yesSubmit

BlockedReached ==
    /\ EarlierCompleted
    /\ ~loading
    /\ test.exists
    /\ ~mounted

\* C5: once the session is submitted, testAttempts holds exactly one record
\* of the session, and it is completed: none is left in_progress.
SubmissionUpdatesTheStartRecord ==
    testSubmitted => SessionCompleted = 1 /\ SessionInProgress = 0

-----------------------------------------------------------------------------
(* Properties of scoring.                                                  *)

Range(seq) == { seq[i] : i \in 1..Len(seq) }

\* the positions of an answer list whose question the switch of
\* calculateScore counts correct
CorrectPositions(answers) ==
    { i \in 1..Len(questions) :
        /\ answers[i].answer.t # "null"
        /\ IsCorrect(questions[i], answers[i].answer) }

\* C6: the score of every completed record of the session is 100 * correct / n
\* rounded to the nearest integer (halves up), n being the number of all
\* questions, answered or not; 3 correct of 5 give 60.
ScoreIsRoundedShare ==
    \A d \in BagToSet(testAttempts) :
        (d.status = "completed" /\ d.origin = "session") =>
            LET n == Len(questions)
                c == Cardinality(CorrectPositions(d.answers))
            IN /\ d.totalQuestions = n
               /\ 2 * n * d.score - n <= 200 * c
               /\ 200 * c < 2 * n * d.score + n
               /\ (n = 5 /\ c = 3) => d.score = 60

\* C7: a multi-choice answer is counted correct exactly when the set of the
\* selected indices is the set of the correct indices, whatever the order of
\* selection; alone in its bank, that is a score of 100 against 0.
MultiChoiceIsSetEquality ==
    \A i \in 1..Len(userAnswers) :
        (questions[i].type = "mcq-multiple" /\ userAnswers[i].answer.t = "array") =>
            LET same == Range(userAnswers[i].answer.v)
                            = Range(questions[i].correctAnswer.v)
            IN /\ IsCorrect(questions[i], userAnswers[i].answer) <=> same
               /\ Len(questions) = 1 =>
                     CompletedAttempt(timeRemaining).score
                         = (IF same THEN 100 ELSE 0)

SupersetSelected ==
    \E i \in 1..Len(userAnswers) :
        /\ questions[i].type = "mcq-multiple"
        /\ userAnswers[i].answer.t = "array"
        /\ Range(userAnswers[i].answer.v) = {0, 2, 3}
        /\ Range(questions[i].correctAnswer.v) = {0, 2}
        /\ ~IsCorrect(questions[i], userAnswers[i].answer)

ResultScore == calculateScore(questions, userAnswers)

\* the result screen: const passed = score >= (test.passingScore || 70)
ResultPassed == ResultScore >= IntValue(OrElse(test.passingScore, Number(70)).v)

\* C9: the result screen reports passed exactly when the score reaches the
\* test's passingScore, 70 standing in only for a test that defines none.
PassedIsScoreAtLeastPassingScore ==
    Screen = "result" =>
        (ResultPassed <=>
            ResultScore >= (IF test.passingScore.t = "number"
                            THEN IntValue(test.passingScore.v) ELSE 70))

-----------------------------------------------------------------------------
(* Properties of the load and of the start.                                *)

\* the ids of a question list, as a bag
IdBag(qs) ==
    [id \in { qs[i].id : i \in 1..Len(qs) } |->
        Cardinality({ i \in 1..Len(qs) : qs[i].id = id })]

\* the session holds the questions of its test
Loaded == mounted /\ ~loading /\ test.exists

\* C11: the question list of a test that shuffles is a permutation of the
\* list the same bank resolves to without shuffling: the same ids with the
\* same multiplicities.
ShuffleIsPermutation ==
    (Loaded /\ test.shuffleQuestions) =>
        /\ Len(questions) = Len(Resolve(bankDoc.questions))
        /\ IdBag(questions) = IdBag(Resolve(bankDoc.questions))

ShuffledOutOfOrder ==
    /\ Loaded /\ test.shuffleQuestions
    /\ Len(questions) = 3
    /\ questions # Resolve(bankDoc.questions)

\* the bank of the test is missing, or none of its ids resolves
ResolverFails == ~bankDoc.exists \/ Resolve(bankDoc.questions) = << >>

\* C12: when the bank of the test does not resolve, or no question is left
\* after the unresolved ids are skipped, the session is never started: no
\* attempt record is written or on its way, the clock cannot tick and no
\* submission can be triggered.
ResolverFailureIsFatal ==
    ResolverFails =>
        /\ \A d \in BagToSet(testAttempts) : d.origin # "session"
        /\ inflight = EmptyBag
        /\ ~testStarted /\ ~testSubmitted
        /\ Screen \in {"loading", "unavailable", "none"}
        /\ ~ENABLED startTest
        /\ ~ENABLED tick
        /\ ~ENABLED submitTestButton
        /\ ~ENABLED yesSubmit

NothingLeftToAsk ==
    /\ Screen = "unavailable"
    /\ test.exists /\ bankDoc.exists
    /\ bankDoc.questions # << >>
    /\ questions = << >>
    /\ timeRemaining > 0

-----------------------------------------------------------------------------
(* Properties of submission, of the clock and of the start.                *)

\* a write of the session is rejected
WriteRejected == \E call \in BagToSet(inflight) : addDocRejects(call)

\* C13: a submission whose write fails is retried: if from some time on no
\* write is rejected, a triggered submission leads to the submitted session
\* with its completed record, the operator doing nothing more.
SubmissionIsRetried ==
    <>[][~WriteRejected]_vars
        => ((AttemptCalls > 0) ~> (testSubmitted /\ SessionCompleted >= 1))

\* C14: grading sees one snapshot of the answers: on the result screen the
\* score on every completed record of the session is the score shown, and
\* passes the threshold exactly when the screen reports a pass.
GradingSeesOneSnapshot ==
    Screen = "result" =>
        \A d \in BagToSet(testAttempts) :
            (d.status = "completed" /\ d.origin = "session") =>
                /\ d.score = ResultScore
                /\ (d.score >= IntValue(OrElse(test.passingScore, Number(70)).v))
                       <=> ResultPassed

\* C15: the clock's reaching zero triggers the submission once: the timer
\* effect calls handleSubmitTest at most once in a session, and the clock
\* does not tick after the call.
ExpirySubmitsOnce ==
    /\ expirySubmits <= 1
    /\ expirySubmits >= 1 => ~ENABLED tick

\* the calls of startTest waiting for their write
StartCalls ==
    BagCardinality([c \in {e \in BagToSet(inflight) : e.kind = "start"}
                       |-> inflight[c]])

\* C16: the start is refused while a completed attempt of the user and the
\* test exists, whenever it was written: no step hands an in_progress record
\* to the store, stores one or starts the session in such a state.
StartChecksUniqueness ==
    [][AlreadyCompleted(testAttempts) =>
          /\ StartCalls' <= StartCalls
          /\ SessionInProgress' = SessionInProgress
          /\ testStarted' = testStarted]_vars

\* C17: a session writes its in_progress record once, on becoming started:
\* the store never holds two in_progress records of the session, and a
\* started session has its record.
OneStartRecord ==
    /\ SessionInProgress <= 1
    /\ testStarted => SessionInProgress >= 1

\* C18: the remaining time goes down only by one second at a time and only
\* in a started session that is neither submitting nor submitted.
ClockRunsOnlyInProgress ==
    [][timeRemaining' < timeRemaining =>
          /\ timeRemaining' = timeRemaining - 1
          /\ testStarted
          /\ ~SubmissionInFlight
          /\ ~testSubmitted]_vars

\* the load found a completed attempt and turned the operator away
Blocked == ~loading /\ EarlierCompleted

\* C19: the submitted session and the blocked session are final: no step
\* taken there changes the session state, the answers with their flags or
\* the remaining time, and none writes an attempt or hands one to the store.
TerminalStatesAreFinal ==
    [][(testSubmitted \/ Blocked) =>
          /\ UNCHANGED << testSubmitted, testStarted, userAnswers,
                          timeRemaining, testAttempts >>
          /\ AttemptCalls' <= AttemptCalls
          /\ StartCalls' <= StartCalls]_vars

-----------------------------------------------------------------------------
(* Properties of the answer store.                                         *)

\* C20: the answer store holds one entry per resolved question, in the order
\* of the questions, at all times; the load seeds every entry with no answer
\* and no flag, and no later step adds or removes an entry.
OneAnswerPerQuestion ==
    /\ [](/\ Len(userAnswers) = Len(questions)
          /\ \A i \in 1..Len(questions) :
                userAnswers[i].questionId = questions[i].id)
    /\ [][/\ (loading /\ ~loading') =>
                \A i \in 1..Len(userAnswers') :
                    /\ userAnswers'[i].answer.t = "null"
                    /\ ~userAnswers'[i].flagged
          /\ ~loading =>
                /\ questions' = questions
                /\ Len(userAnswers') = Len(userAnswers)]_vars

AnsweredAndFlagged ==
    /\ Screen = "test"
    /\ Len(questions) = 3
    /\ questions # Resolve(bankDoc.questions)
    /\ \E i \in 1..Len(userAnswers) : userAnswers[i].answer.t # "null"
    /\ \E i \in 1..Len(userAnswers) : userAnswers[i].flagged
    /\ \A i \in 1..Len(questions) : userAnswers[i].questionId = questions[i].id

\* the tag an answer to a question of the type must carry
TagOfType(type) ==
    CASE type = "mcq-single" -> "number"
      [] type = "mcq-multiple" -> "array"
      [] type = "true-false" -> "boolean"
      [] type = "numeric" -> "number"

\* C21: an answer whose tag does not match the type of its question is
\* never stored: every answer of the store that is not null is a number
\* for a single-choice question, an array for a multi-choice question, a
\* boolean for a true/false question and a number for a numeric question.
AnswersMatchQuestionType ==
    \A i \in 1..Len(userAnswers) :
        userAnswers[i].answer.t # "null" =>
            userAnswers[i].answer.t = TagOfType(questions[i].type)

\* the ids of a question list, in its order
Ids(qs) == [i \in 1..Len(qs) |-> qs[i].id]

\* the listed ids of the bank that have a question document, in listed order
ListedAndResolving ==
    SelectSeq(bankDoc.questions, LAMBDA id : id \in DOMAIN QuestionDocs)

\* C22: the loaded question list holds the questions whose ids the bank
\* lists and that still resolve, each with its document's data, and in the
\* listed order when the test does not shuffle; an id that no longer
\* resolves is left out and the load goes on.
ResolvedInListedOrder ==
    Loaded =>
        /\ Len(questions) = Len(ListedAndResolving)
        /\ Range(Ids(questions)) = Range(ListedAndResolving)
        /\ \A i \in 1..Len(questions) : questions[i] = Question(questions[i].id)
        /\ ~test.shuffleQuestions => Ids(questions) = ListedAndResolving

GapSkipped ==
    /\ Loaded /\ ~test.shuffleQuestions
    /\ Screen = "start"
    /\ \E i \in 1..Len(bankDoc.questions) :
          bankDoc.questions[i] \notin DOMAIN QuestionDocs
    /\ Ids(questions) = << "s1", "s2", "b1" >>

-----------------------------------------------------------------------------
(* Properties of the completed record and of the clock.                    *)

\* the seconds of the test that have gone by
SecondsUsed == test.duration * 60 - timeRemaining

\* C23: the time used on a completed record is the duration of the test less
\* the remaining time at the submission, in seconds (the whole duration for
\* a submission by expiry), and is the time taken the result screen shows.
TimeUsedIsRecorded ==
    /\ [][\A call \in BagToSet(inflight') :
             (call.kind = "attempt"
                 /\ CopiesIn(call, inflight') > CopiesIn(call, inflight))
                => call.doc.timeSpent = SecondsUsed']_vars
    /\ [](Screen = "result" =>
             \A d \in BagToSet(testAttempts) :
                 (d.status = "completed" /\ d.origin = "session")
                    => d.timeSpent = SecondsUsed)

\* C24: the remaining time stays between 0 and the duration of the test in
\* seconds; once the session is loaded it never goes up, and it goes down
\* by one second at a time from a value above 0.
ClockIsBounded ==
    /\ [](0 <= timeRemaining /\ timeRemaining <= test.duration * 60)
    /\ [][~loading =>
             /\ timeRemaining' <= timeRemaining
             /\ timeRemaining' # timeRemaining =>
                   (timeRemaining > 0 /\ timeRemaining' = timeRemaining - 1)]_vars

ClockRanOut ==
    /\ testStarted
    /\ timeRemaining = 0
    /\ test.duration * 60 > 0
    /\ ~ENABLED tick

\* C25: a completed record of the session agrees with itself: its score is
\* the score of the answers it holds, an integer from 0 to 100, and its
\* answeredQuestions is the number of its answers that are not null.
CompletedRecordIsConsistent ==
    \A d \in BagToSet(testAttempts) :
        (d.status = "completed" /\ d.origin = "session") =>
            /\ Len(d.answers) = Len(questions)
            /\ d.score = Percentage(Cardinality(CorrectPositions(d.answers)),
                                    Len(questions))
            /\ d.score \in 0..100
            /\ d.answeredQuestions =
                  Cardinality({ i \in 1..Len(d.answers) :
                                  d.answers[i].answer.t # "null" })

HalfAnsweredRecord ==
    \E d \in BagToSet(testAttempts) :
        /\ d.status = "completed" /\ d.origin = "session"
        /\ d.score = 50
        /\ d.answeredQuestions = 1
        /\ d.totalQuestions = 2

\* C26: a session that has written a completed record triggers no further
\* submission, whatever became of the activity log write that follows: no
\* later step hands another completed record to the store, and 'Yes, Submit'
\* cannot act.
NoSubmissionAfterCompletedRecord ==
    /\ [][SessionCompleted >= 1 => AttemptCalls' <= AttemptCalls]_vars
    /\ [](SessionCompleted >= 1 => ~ENABLED yesSubmit)

\* C27: the attempt is bounded by the clock: in a started session whose
\* remaining time is 0 no step changes an answer or a flag.
NoAnswerAfterExpiry ==
    [][(testStarted /\ timeRemaining = 0) => userAnswers' = userAnswers]_vars

\* C28: a start whose write of the in_progress record fails leaves the
\* session ready: in the step in which a call of startTest ends without its
\* record stored, a session not yet started stays not started and on the
\* screen it was on, with its clock, answers and flags as they were and no
\* submission handed to the store.
FailedStartStaysReady ==
    [][(/\ ~testStarted
        /\ StartCalls' < StartCalls
        /\ SessionInProgress' = SessionInProgress) =>
          /\ ~testStarted' /\ ~testSubmitted'
          /\ Screen' = Screen
          /\ UNCHANGED << timeRemaining, userAnswers, currentQuestion,
                          testAttempts >>
          /\ AttemptCalls' = AttemptCalls]_vars

StartCanBeRepeated ==
    /\ Screen = "start"
    /\ startClicks = 1
    /\ inflight = EmptyBag
    /\ SessionInProgress = 0
    /\ ~testStarted
    /\ ~ENABLED tick
    /\ ENABLED startTest

\* C29: an answered question stays answered: no step turns an answer that
\* is not null into null, so the number of answered questions never falls;
\* a multi-choice answer with every option deselected is the empty array.
AnsweredStaysAnswered ==
    [][/\ \A i \in 1..Len(userAnswers) :
             userAnswers[i].answer.t # "null" =>
                 /\ i <= Len(userAnswers')
                 /\ userAnswers'[i].answer.t # "null"
       /\ AnsweredCount(userAnswers') >= AnsweredCount(userAnswers)]_vars

EverythingDeselected ==
    /\ Screen = "test"
    /\ \E i \in 1..Len(userAnswers) :
          /\ questions[i].type = "mcq-multiple"
          /\ userAnswers[i].answer.t = "array"
          /\ userAnswers[i].answer.v = << >>
    /\ AnsweredCount(userAnswers) = 1

\* C30: updateAnswer changes the answer of the entries of its question id
\* and nothing else, toggleFlag their flag and nothing else: in a step that
\* changes the answer store of a loaded session, the entries keep their
\* number and order, the entries of one question id change in the one field
\* and every other entry is as it was, and the clock and the session state
\* are as they were; a question id the store does not hold changes nothing.
StoreUpdatesAreLocal ==
    [][(~loading /\ userAnswers' # userAnswers) =>
          /\ Len(userAnswers') = Len(userAnswers)
          /\ \E id \in Range(Ids(questions)) :
                \/ \A i \in 1..Len(userAnswers) :
                      userAnswers'[i] =
                          IF userAnswers[i].questionId = id
                          THEN [userAnswers[i] EXCEPT
                                   !.answer = userAnswers'[i].answer]
                          ELSE userAnswers[i]
                \/ \A i \in 1..Len(userAnswers) :
                      userAnswers'[i] =
                          IF userAnswers[i].questionId = id
                          THEN [userAnswers[i] EXCEPT
                                   !.flagged = ~userAnswers[i].flagged]
                          ELSE userAnswers[i]
          /\ UNCHANGED << timeRemaining, testStarted, testSubmitted,
                          questions, currentQuestion, showSubmitWarning,
                          testAttempts, inflight >>]_vars

AnsweredOneFlaggedAnother ==
    /\ Screen = "test"
    /\ Len(userAnswers) = 3
    /\ userAnswers[1].answer.t # "null" /\ ~userAnswers[1].flagged
    /\ userAnswers[2].answer.t = "null" /\ userAnswers[2].flagged
    /\ userAnswers[3].answer.t = "null" /\ ~userAnswers[3].flagged

====
